---- MODULE Spec2Model ----
(***************************************************************************)
(* Scale and tick-generation engine of zcharts: LinearScale,               *)
(* LogarithmicScale, the base Scale, getZoomExtent and the chart's zoom    *)
(* handlers.                                                               *)
(*                                                                         *)
(* Numbers.  A JavaScript number is modelled as a pair <<n, d>>:           *)
(*   d > 0   the rational n/d in lowest terms (arithmetic is exact),       *)
(*   <<1,0>> +Infinity, <<-1,0>> -Infinity, <<0,0>> NaN,                   *)
(*   <<0,-1>> the value undefined (an absent option).                      *)
(* The sign of zero is not modelled: every divisor that can be zero in the *)
(* modelled code (a range max - min, a space count count - 1, a spacing    *)
(* niceNum(0) * unit, a box width) is +0 in IEEE arithmetic.               *)
(* The IEEE rounding effects that are modelled are named where they are   *)
(* used (QuotientLow and ProductHigh of the logarithmic generateTicks).    *)
(***************************************************************************)
EXTENDS Integers, Sequences, FiniteSets, TLC

\* op, arg, res: one call of an exported function or scale method (the
\* operation, its inputs, what it returned); axes, built, wheels: the chart
VARIABLES op, arg, res, axes, built, wheels

vars == <<op, arg, res, axes, built, wheels>>

--------------------------------------------------------------------------
(* JavaScript numbers *)

NaN == <<0, 0>>

PosInf == <<1, 0>>

NegInf == <<-1, 0>>

Undef == <<0, -1>>

AbsInt(n) == IF n < 0 THEN -n ELSE n

RECURSIVE GCD(_, _)
GCD(a, b) == IF b = 0 THEN a ELSE GCD(b, a % b)

\* the rational n/d (d # 0) in lowest terms with a positive denominator
Q(n, d) ==
  LET g == GCD(AbsInt(n), AbsInt(d))
      s == IF d < 0 THEN -1 ELSE 1
  IN  <<(s * n) \div g, (s * d) \div g>>

I(n) == <<n, 1>>

IsNaN(x) == x = NaN

IsFin(x) == x[2] > 0

IsInf(x) == x = PosInf \/ x = NegInf

\* -1, 0 or 1; the sign of a NaN is 0
Sgn(x) == IF x[1] > 0 THEN 1 ELSE IF x[1] < 0 THEN -1 ELSE 0

\* ToNumber: undefined converts to NaN
ToNum(x) == IF x = Undef THEN NaN ELSE x

Neg(x) == <<-x[1], x[2]>>

Add(x, y) ==
  IF IsNaN(x) \/ IsNaN(y) THEN NaN
  ELSE IF IsInf(x) /\ IsInf(y) THEN (IF x = y THEN x ELSE NaN)
  ELSE IF IsInf(x) THEN x
  ELSE IF IsInf(y) THEN y
  ELSE LET g == GCD(x[2], y[2])
       IN  Q(x[1] * (y[2] \div g) + y[1] * (x[2] \div g), x[2] * (y[2] \div g))

Sub(x, y) == Add(x, Neg(y))

Mul(x, y) ==
  IF IsNaN(x) \/ IsNaN(y) THEN NaN
  ELSE IF IsInf(x) \/ IsInf(y)
       THEN (IF Sgn(x) * Sgn(y) = 0 THEN NaN ELSE <<Sgn(x) * Sgn(y), 0>>)
  ELSE LET g == GCD(AbsInt(x[1]), y[2])
           h == GCD(AbsInt(y[1]), x[2])
       IN  Q((x[1] \div g) * (y[1] \div h), (x[2] \div h) * (y[2] \div g))

Div(x, y) ==
  IF IsNaN(x) \/ IsNaN(y) THEN NaN
  ELSE IF IsInf(x) THEN (IF IsInf(y) THEN NaN
                         ELSE IF Sgn(y) < 0 THEN Neg(x) ELSE x)
  ELSE IF IsInf(y) THEN I(0)
  ELSE IF y[1] = 0 THEN (IF x[1] = 0 THEN NaN ELSE <<Sgn(x), 0>>)
  ELSE Mul(x, Q(y[2], y[1]))

\* x < y; false when either side is NaN
Lt(x, y) ==
  IF IsNaN(x) \/ IsNaN(y) THEN FALSE
  ELSE IF IsInf(x) \/ IsInf(y)
       THEN (IF x = y THEN FALSE
             ELSE IF x = NegInf \/ y = PosInf THEN TRUE ELSE FALSE)
  ELSE LET g == GCD(x[2], y[2])
       IN  x[1] * (y[2] \div g) < y[1] * (x[2] \div g)

Gt(x, y) == Lt(y, x)

\* x === y on numbers
Eq(x, y) == ~IsNaN(x) /\ ~IsNaN(y) /\ x = y

Le(x, y) == Lt(x, y) \/ Eq(x, y)

Ge(x, y) == Le(y, x)

MathFloor(x) == IF IsFin(x) THEN I(x[1] \div x[2]) ELSE x

MathCeil(x) == IF IsFin(x) THEN I(-((-x[1]) \div x[2])) ELSE x

\* Math.round: to the nearest integer, halves toward +Infinity
MathRound(x) == IF IsFin(x) THEN MathFloor(Add(x, Q(1, 2))) ELSE x

MathAbs(x) == IF Sgn(x) < 0 THEN Neg(x) ELSE x

MathMin(x, y) ==
  IF IsNaN(ToNum(x)) \/ IsNaN(ToNum(y)) THEN NaN
  ELSE IF Lt(y, x) THEN y ELSE x

MathMax(x, y) ==
  IF IsNaN(ToNum(x)) \/ IsNaN(ToNum(y)) THEN NaN
  ELSE IF Lt(x, y) THEN y ELSE x

RECURSIVE PowInt(_, _)
PowInt(b, k) == IF k = 0 THEN 1 ELSE b * PowInt(b, k - 1)

\* Math.pow(10, e) for a whole, infinite or NaN exponent e
Pow10(e) ==
  IF IsNaN(e) THEN NaN
  ELSE IF e = PosInf THEN PosInf
  ELSE IF e = NegInf THEN I(0)
  ELSE IF e[1] >= 0 THEN I(PowInt(10, e[1]))
  ELSE Q(1, PowInt(10, -e[1]))

--------------------------------------------------------------------------
(* utils/common and utils/math *)

isNullOrUndef(v) == v = Undef

\* truthiness of a number or undefined
Truthy(v) == v # Undef /\ ~IsNaN(v) /\ v # I(0)

finiteOrDefault(value, defaultValue) ==
  IF value # Undef /\ IsFin(value) THEN value ELSE defaultValue

almostEquals(x, y, epsilon) == Lt(MathAbs(Sub(x, y)), epsilon)

almostWhole(x, epsilon) ==
  LET rounded == MathRound(x)
  IN  Le(Sub(rounded, epsilon), x) /\ Ge(Add(rounded, epsilon), x)

\* the whole e with 10^e <= n/d < 10^(e+1), for n/d > 0
RECURSIVE DecadeOf(_, _, _)
DecadeOf(n, d, e) ==
  IF n >= 10 * d THEN DecadeOf(n, 10 * d, e + 1)
  ELSE IF n < d THEN DecadeOf(10 * n, d, e - 1)
  ELSE e

\* Math.log10.  Exact at the powers of ten; between two of them the
\* logarithm is replaced by its chord, which keeps it strictly increasing
\* and keeps Math.floor(log10(x)) exact.
log10(x) ==
  IF IsNaN(x) \/ Sgn(x) < 0 THEN NaN
  ELSE IF x = PosInf THEN PosInf
  ELSE IF x[1] = 0 THEN NegInf
  ELSE LET e == DecadeOf(x[1], x[2], 0)
       IN  Add(I(e), Div(Sub(Div(x, Pow10(I(e))), I(1)), I(9)))

\* Math.pow(10, y) for any y: the inverse of log10 above
MathPow10(y) ==
  IF ~IsFin(y) THEN Pow10(y)
  ELSE LET e == MathFloor(y)
       IN  Mul(Add(I(1), Mul(I(9), Sub(y, e))), Pow10(e))

niceNum(range) ==
  LET roundedRange == MathRound(range)
      r == IF almostEquals(range, roundedRange, Div(range, I(1000)))
           THEN roundedRange ELSE range
      niceRange == Pow10(MathFloor(log10(r)))
      fraction == Div(r, niceRange)
      niceFraction == IF Le(fraction, I(1)) THEN I(1)
                      ELSE IF Le(fraction, I(2)) THEN I(2)
                      ELSE IF Le(fraction, I(5)) THEN I(5) ELSE I(10)
  IN  Mul(niceFraction, niceRange)

\* decimal places a double needs when its value has no finite decimal
\* expansion (1/3 prints as 0.3333333333333333)
FloatDecimals == 16

\* decimal places of n/d from its denominator d (lowest terms)
RECURSIVE DenPlaces(_, _)
DenPlaces(d, p) ==
  IF d = 1 THEN p
  ELSE LET g == GCD(d, 10)
       IN  IF g = 1 THEN FloatDecimals ELSE DenPlaces(d \div g, p + 1)

decimalPlaces(x) == IF ~IsFin(x) THEN Undef ELSE I(DenPlaces(x[2], 0))

\* Math.round(x * factor) / factor with factor = Math.pow(10, places);
\* at FloatDecimals places the rounding keeps every digit of the double
RoundAt(x, places) ==
  IF IsNaN(places) THEN NaN
  ELSE IF IsFin(places) /\ places[1] >= FloatDecimals THEN x
  ELSE Div(MathRound(Mul(x, Pow10(places))), Pow10(places))

RECURSIVE IntDigits(_)
IntDigits(n) == IF n < 10 THEN 1 ELSE 1 + IntDigits(n \div 10)

\* ("" + value).length
StrLen(x) ==
  IF IsNaN(x) THEN 3
  ELSE IF x = PosInf THEN 8
  ELSE IF x = NegInf THEN 9
  ELSE LET a == AbsInt(x[1])
           p == DenPlaces(x[2], 0)
       IN  (IF x[1] < 0 THEN 1 ELSE 0) + IntDigits(a \div x[2])
           + (IF p = 0 THEN 0 ELSE 1 + p)

--------------------------------------------------------------------------
(* scales/linear.ts *)

MIN_SPACING_EXP == 14

\* x < MIN_SPACING, with MIN_SPACING = 1e-14
RECURSIVE LtTenTo(_, _, _)
LtTenTo(n, d, e) ==
  IF e = 0 THEN n < d
  ELSE IF 10 * n >= d THEN FALSE
  ELSE LtTenTo(10 * n, d, e - 1)

LtMinSpacing(x) ==
  IF IsNaN(x) THEN FALSE
  ELSE IF IsInf(x) THEN x = NegInf
  ELSE x[1] <= 0 \/ LtTenTo(x[1], x[2], MIN_SPACING_EXP)

\* Math.sin / Math.cos of toRadians(minRotation) for minRotation = 0, the
\* value LinearScale.buildTicks passes when options.ticks.minRotation is
\* not set (Axis never sets it)
relativeLabelSize(value, minSpacing, opts) ==
  LET ratio == IF opts.horizontal THEN Q(1, 1000) ELSE I(1)
      length == Mul(Mul(Q(3, 4), minSpacing), I(StrLen(value)))
  IN  MathMin(Div(minSpacing, ratio), length)

\* for (; j < numSpaces; ++j) { ... ticks.push({ value: tickValue }) }
RECURSIVE EmitLoop(_, _, _, _, _, _, _, _)
EmitLoop(ticks, j, numSpaces, niceMin, spacing, places, maxDefined, max) ==
  IF ~Lt(I(j), numSpaces) THEN ticks
  ELSE LET tickValue == RoundAt(Add(niceMin, Mul(I(j), spacing)), places)
       IN  IF maxDefined /\ Gt(tickValue, max) THEN ticks
           ELSE EmitLoop(Append(ticks, [value |-> tickValue]), j + 1,
                         numSpaces, niceMin, spacing, places, maxDefined, max)

\* generateTicks without the tick at max
pushMax_NoTick(generationOptions, minSpacing, niceMax, ticks) == ticks

\* lines 182-198: the tick at max, appended or put in place of the last one
pushMax(generationOptions, minSpacing, niceMax, ticks) ==
  LET max == generationOptions.max
      maxDefined == ~isNullOrUndef(max)
      n == Len(ticks)
  IN  IF maxDefined /\ generationOptions.includeBounds /\ ~Eq(niceMax, max)
      THEN (IF n > 0 /\ almostEquals(ticks[n].value, max,
                          relativeLabelSize(max, minSpacing, generationOptions))
            THEN [ticks EXCEPT ![n] = [value |-> max]]
            ELSE Append(ticks, [value |-> max]))
      ELSE IF ~maxDefined \/ Eq(niceMax, max)
      THEN Append(ticks, [value |-> niceMax])
      ELSE ticks

\* lines 151-180: the tick at min and the ticks of the loop
pushTicks(generationOptions, minSpacing, niceMin, numSpaces, spacing, places) ==
  LET min == generationOptions.min
      max == generationOptions.max
      minDefined == ~isNullOrUndef(min)
      pushMin == minDefined /\ generationOptions.includeBounds /\ ~Eq(niceMin, min)
      jA == IF Lt(niceMin, min) THEN 1 ELSE 0
      jB == IF almostEquals(RoundAt(Add(niceMin, Mul(I(jA), spacing)), places), min,
                            relativeLabelSize(min, minSpacing, generationOptions))
            THEN jA + 1 ELSE jA
      j == IF ~minDefined THEN 0
           ELSE IF pushMin THEN jB
           ELSE IF Lt(niceMin, min) THEN 1 ELSE 0
  IN  EmitLoop(IF pushMin THEN <<[value |-> min]>> ELSE <<>>, j, numSpaces,
               niceMin, spacing, places, ~isNullOrUndef(max), max)

\* lines 146-149: niceMin and niceMax rounded to the decimal places of the
\* spacing, or to the precision
roundedTicks(generationOptions, minSpacing, niceMin, niceMax, numSpaces, spacing, places) ==
  pushMax(generationOptions, minSpacing, RoundAt(niceMax, places),
          pushTicks(generationOptions, minSpacing, RoundAt(niceMin, places),
                    numSpaces, spacing, places))

\* lines 110-149: cases 1 to 4 of numSpaces, spacing, niceMin and niceMax
spacedTicks(generationOptions, minSpacing, niceMin0, niceMax0, spacing2) ==
  LET step == generationOptions.step
      min == generationOptions.min
      max == generationOptions.max
      precision == generationOptions.precision
      count == generationOptions.count
      maxTicks == generationOptions.maxTicks
      minDefined == ~isNullOrUndef(min)
      maxDefined == ~isNullOrUndef(max)
      countDefined == ~isNullOrUndef(count)
      case1 == minDefined /\ maxDefined /\ Truthy(step)
               /\ almostWhole(Div(Sub(max, min), step), Div(spacing2, I(1000)))
      numSpaces1 == MathRound(MathMin(Div(Sub(max, min), spacing2), maxTicks))
      niceMin == IF case1 THEN min
                 ELSE IF countDefined /\ minDefined THEN min ELSE niceMin0
      niceMax == IF case1 THEN max
                 ELSE IF countDefined /\ maxDefined THEN max ELSE niceMax0
      numSpaces4 == Div(Sub(niceMax0, niceMin0), spacing2)
      numSpaces == IF case1 THEN numSpaces1
                   ELSE IF countDefined THEN Sub(count, I(1))
                   ELSE IF almostEquals(numSpaces4, MathRound(numSpaces4),
                                        Div(spacing2, I(1000)))
                        THEN MathRound(numSpaces4)
                        ELSE MathCeil(numSpaces4)
      spacing == IF case1 THEN Div(Sub(max, min), numSpaces1)
                 ELSE IF countDefined THEN Div(Sub(niceMax, niceMin), numSpaces)
                 ELSE spacing2
      decPlaces == MathMax(decimalPlaces(spacing), decimalPlaces(niceMin))
  IN  roundedTicks(generationOptions, minSpacing, niceMin, niceMax, numSpaces,
                   spacing, IF isNullOrUndef(precision) THEN decPlaces ELSE precision)

\* lines 102-108: niceMin and niceMax on the grid of the spacing
boundedTicks(generationOptions, dataRange, minSpacing, spacing2) ==
  LET rmin == dataRange.min
      rmax == dataRange.max
  IN  IF generationOptions.bounds = "ticks"
      THEN spacedTicks(generationOptions, minSpacing,
                       Mul(MathFloor(Div(rmin, spacing2)), spacing2),
                       Mul(MathCeil(Div(rmax, spacing2)), spacing2), spacing2)
      ELSE spacedTicks(generationOptions, minSpacing, rmin, rmax, spacing2)

\* lines 96-100: the spacing rounded up to the precision
preciseSpacing(precision, spacing1) ==
  IF ~isNullOrUndef(precision)
  THEN Div(MathCeil(Mul(spacing1, Pow10(precision))), Pow10(precision))
  ELSE spacing1

\* lines 90-94: the spacing recalculated when it gives too many spaces
recalculatedSpacing(rmin, rmax, maxSpaces, unit, spacing0) ==
  LET numSpaces0 == Sub(MathCeil(Div(rmax, spacing0)), MathFloor(Div(rmin, spacing0)))
  IN  IF Gt(numSpaces0, maxSpaces)
      THEN Mul(niceNum(Div(Div(Mul(numSpaces0, spacing0), maxSpaces), unit)), unit)
      ELSE spacing0

\* lines 86-88: the two-tick return for a spacing below MIN_SPACING
guardedTicks(generationOptions, dataRange, unit, maxSpaces, minSpacing, spacing0) ==
  IF /\ LtMinSpacing(spacing0)
     /\ isNullOrUndef(generationOptions.min)
     /\ isNullOrUndef(generationOptions.max)
  THEN <<[value |-> dataRange.min], [value |-> dataRange.max]>>
  ELSE boundedTicks(generationOptions, dataRange, minSpacing,
         preciseSpacing(generationOptions.precision,
           recalculatedSpacing(dataRange.min, dataRange.max, maxSpaces, unit,
                               spacing0)))

generateTicks(generationOptions, dataRange) ==
  LET step == generationOptions.step
      unit == IF Truthy(step) THEN step ELSE I(1)
      maxSpaces == Sub(generationOptions.maxTicks, I(1))
      rmin == dataRange.min
      rmax == dataRange.max
      minSpacing == Div(Sub(rmax, rmin), Add(generationOptions.maxDigits, I(1)))
  IN  guardedTicks(generationOptions, dataRange, unit, maxSpaces, minSpacing,
        Mul(niceNum(Div(Div(Sub(rmax, rmin), maxSpaces), unit)), unit))

\* maxTicksLimit || 11
DefaultMaxTicks == 11

MaxTicksCap == 1000

\* LinearScale.getMaxTicks for a scale with extent [min, max]
getMaxTicks(min, max, tickOptions) ==
  LET step == tickOptions.step
      maxTicks0 == Add(Sub(MathCeil(Div(max, step)), MathFloor(Div(min, step))), I(1))
  IN  IF Truthy(step)
      THEN (IF Gt(maxTicks0, I(MaxTicksCap)) THEN I(MaxTicksCap) ELSE maxTicks0)
      ELSE MathMin(IF Truthy(tickOptions.maxTicksLimit)
                   THEN tickOptions.maxTicksLimit ELSE I(DefaultMaxTicks), PosInf)

\* Scale.maxDigits: the axis group's rendered size over the axis width
maxDigits(groupSize, axisWidth) == Div(groupSize, axisWidth)

\* LinearScale.buildTicks of a scale [min, max] with options.bounds = bounds
\* and options.ticks = tickOptions
buildTicksLinear(min, max, bounds, tickOptions, horizontal, digits) ==
  LET maxTicks == MathMax(I(2), getMaxTicks(min, max, tickOptions))
      opts == [bounds |-> bounds,
               step |-> tickOptions.step,
               min |-> min,
               max |-> max,
               precision |-> tickOptions.precision,
               count |-> tickOptions.count,
               maxTicks |-> maxTicks,
               maxDigits |-> digits,
               includeBounds |-> tickOptions.includeBounds,
               horizontal |-> horizontal,
               minRotation |-> I(0)]
  IN  generateTicks(opts, [min |-> min, max |-> max])

--------------------------------------------------------------------------
(* Calls of the linear tick generator *)

MaxCount == 3

MaxPrecision == 1

\* an explicit step divides the extent into at most MaxGrid spaces
MaxGrid == 24

LinearValues ==
  {I(-2), Q(-1, 2), I(0), Q(1, 4), I(1), Q(5, 4), I(2), I(3), I(23), I(100)}

TickOptionsSet ==
  [step : {Undef, Q(1, 4), I(2), I(5)},
   count : {Undef} \cup {I(c) : c \in 1..MaxCount},
   precision : {Undef} \cup {I(c) : c \in 0..MaxPrecision},
   includeBounds : BOOLEAN, maxTicksLimit : {Undef}]

\* a LinearScale: its extent (min <= max, as determineDataLimits leaves
\* it), options.bounds, options.ticks, its orientation and maxDigits()
LinearInputs ==
  {a \in [min : LinearValues, max : LinearValues, bounds : {"data", "ticks"},
          ticks : TickOptionsSet, horizontal : BOOLEAN, digits : {I(0)}] :
     /\ Le(a.min, a.max)
     /\ Truthy(a.ticks.step) =>
          Le(Div(Sub(a.max, a.min), a.ticks.step), I(MaxGrid))}

\* the chart is not part of a run that calls one function
NoChart == <<>>

InitLinear ==
  /\ op = "new"
  /\ arg \in LinearInputs
  /\ res = <<>>
  /\ axes = NoChart
  /\ built = NoChart
  /\ wheels = 0

\* scale.buildTicks() on a LinearScale
BuildTicksLinear ==
  /\ op = "new"
  /\ op' = "buildTicks"
  /\ res' = buildTicksLinear(arg.min, arg.max, arg.bounds, arg.ticks,
                             arg.horizontal, arg.digits)
  /\ UNCHANGED <<arg, axes, built, wheels>>

\* generateTicks called with no pinned min and max: the data range alone
GenerateTicksUnpinned ==
  /\ op = "new"
  /\ op' = "generateTicks"
  /\ res' = generateTicks(
       [bounds |-> arg.bounds, step |-> arg.ticks.step, min |-> Undef,
        max |-> Undef, precision |-> arg.ticks.precision,
        count |-> arg.ticks.count,
        maxTicks |-> MathMax(I(2), getMaxTicks(arg.min, arg.max, arg.ticks)),
        maxDigits |-> arg.digits, includeBounds |-> arg.ticks.includeBounds,
        horizontal |-> arg.horizontal, minRotation |-> I(0)],
       [min |-> arg.min, max |-> arg.max])
  /\ UNCHANGED <<arg, axes, built, wheels>>

NextLinear == BuildTicksLinear \/ GenerateTicksUnpinned

SpecLinear == InitLinear /\ [][NextLinear]_vars

\* ticks[i].value < ticks[i+1].value for all i
StrictlyIncreasing(ticks) ==
  \A i \in 1..(Len(ticks) - 1) : Lt(ticks[i].value, ticks[i + 1].value)

\* C1: every tick sequence the linear generator returns is strictly
\* increasing, whatever the step, count, precision and includeBounds:
\* ticks[i].value < ticks[i+1].value for all i.  Stated for the extents
\* with min < max (on min = max the two-tick answer of C4 cannot be
\* strictly increasing).
C1_LinearTicksStrictlyIncreasing ==
  (op \in {"buildTicks", "generateTicks"} /\ Lt(arg.min, arg.max)) =>
    StrictlyIncreasing(res)

\* C3: with includeBounds and both bounds pinned (LinearScale.buildTicks),
\* the first tick is exactly min and the last tick is exactly max, for
\* every step, count and precision.
C3_PinnedBoundsAreFirstAndLast ==
  (op = "buildTicks" /\ arg.ticks.includeBounds) =>
    /\ Len(res) > 0
    /\ Eq(res[1].value, arg.min)
    /\ Eq(res[Len(res)].value, arg.max)

\* C4: buildTicks on a LinearScale with min = max returns exactly two
\* ticks, both equal to that value.
C4_DegenerateExtentGivesTwoTicks ==
  (op = "buildTicks" /\ Eq(arg.min, arg.max)) =>
    /\ Len(res) = 2
    /\ Eq(res[1].value, arg.min)
    /\ Eq(res[2].value, arg.min)

\* the call has no step, count or precision
PlainTicks ==
  /\ arg.ticks.step = Undef
  /\ arg.ticks.count = Undef
  /\ arg.ticks.precision = Undef

\* niceNumber((max - min) / (maxTicks - 1)) of the call
NiceSpacing ==
  niceNum(Div(Sub(arg.max, arg.min),
              Sub(MathMax(I(2), getMaxTicks(arg.min, arg.max, arg.ticks)), I(1))))

\* res is min, min + spacing, ..., max
IsGridFromMinToMax(spacing) ==
  LET n == Div(Sub(arg.max, arg.min), spacing)
  IN  /\ n[2] = 1
      /\ Len(res) = n[1] + 1
      /\ \A i \in 1..Len(res) :
           Eq(res[i].value, Add(arg.min, Mul(I(i - 1), spacing)))

\* the space count generateTicks computes first is within maxTicks - 1
SpacesFit ==
  Le(Sub(MathCeil(Div(arg.max, NiceSpacing)), MathFloor(Div(arg.min, NiceSpacing))),
     Sub(MathMax(I(2), getMaxTicks(arg.min, arg.max, arg.ticks)), I(1)))

\* C15 as stated: with no step, count or precision, whenever max - min is
\* a whole multiple of spacing = niceNumber((max - min) / (maxTicks - 1))
\* the ticks are min, min + spacing, ..., max; on [0, 100] they are
\* 0, 10, ..., 100.
C15_NiceGridAsStated ==
  (op = "buildTicks" /\ PlainTicks /\ arg.bounds = "data"
     /\ Lt(arg.min, arg.max)
     /\ Div(Sub(arg.max, arg.min), NiceSpacing)[2] = 1)
    => IsGridFromMinToMax(NiceSpacing)

\* C15: with no step, count or precision, whenever max - min is a whole
\* multiple of spacing = niceNumber((max - min) / (maxTicks - 1)) and
\* ceil(max / spacing) - floor(min / spacing) is at most maxTicks - 1, the
\* ticks are min, min + spacing, ..., max; on [0, 100] they are
\* 0, 10, ..., 100 (11 ticks).
C15_NiceGrid ==
  (op = "buildTicks" /\ PlainTicks /\ arg.bounds = "data"
     /\ Lt(arg.min, arg.max)
     /\ Div(Sub(arg.max, arg.min), NiceSpacing)[2] = 1
     /\ SpacesFit)
    => /\ IsGridFromMinToMax(NiceSpacing)
       /\ (arg.min = I(0) /\ arg.max = I(100)) =>
            /\ NiceSpacing = I(10)
            /\ Len(res) = 11

C15_Witness ==
  /\ op = "buildTicks"
  /\ PlainTicks
  /\ arg.bounds = "data"
  /\ arg.min = I(0)
  /\ arg.max = I(100)
  /\ Len(res) = 11
  /\ \A i \in 1..11 : res[i].value = I(10 * (i - 1))

\* res is min, min + step, ... for the grid values <= max, then max
IsStepGridThenMax(step) ==
  LET n == MathFloor(Div(Sub(arg.max, arg.min), step))[1]
  IN  /\ Len(res) = n + 2
      /\ \A i \in 1..(n + 1) :
           Eq(res[i].value, Add(arg.min, Mul(I(i - 1), step)))
      /\ Eq(res[n + 2].value, arg.max)

\* the call of C16: an explicit step that does not divide max - min, no
\* count, no precision, includeBounds as the scale defaults it
StepOffGrid ==
  /\ op = "buildTicks"
  /\ Truthy(arg.ticks.step)
  /\ arg.ticks.count = Undef
  /\ arg.ticks.precision = Undef
  /\ arg.ticks.includeBounds
  /\ Div(Sub(arg.max, arg.min), arg.ticks.step)[2] # 1

\* C16: under the bounds policy "data" (the scale's default), with min and
\* max pinned and an explicit step that does not divide max - min, the
\* ticks are min, min + step, ... for the grid values <= max, followed by
\* max; for min = 0, max = 23, step = 5 they are 0, 5, 10, 15, 20, 23.
C16_StepGridThenMax ==
  (StepOffGrid /\ arg.bounds = "data") =>
    /\ IsStepGridThenMax(arg.ticks.step)
    /\ (arg.min = I(0) /\ arg.max = I(23) /\ arg.ticks.step = I(5)) =>
         [i \in 1..Len(res) |-> res[i].value]
           = <<I(0), I(5), I(10), I(15), I(20), I(23)>>

\* C20: LinearScale.buildTicks returns at most
\* maxTicks = max(2, getMaxTicks()) ticks, where getMaxTicks() is
\* maxTicksLimit (default 11) when no step is set and at most 1000 when a
\* step is set, for every extent and every step, count and precision.
C20_TickCountBounded ==
  op = "buildTicks" =>
    LET limit == getMaxTicks(arg.min, arg.max, arg.ticks)
    IN  /\ Le(I(Len(res)), MathMax(I(2), limit))
        /\ ~Truthy(arg.ticks.step) =>
             limit = (IF Truthy(arg.ticks.maxTicksLimit)
                      THEN arg.ticks.maxTicksLimit ELSE I(11))
        /\ Truthy(arg.ticks.step) => Le(limit, I(1000))

\* res is the grid min, min + step, ..., max of (max - min) / step spaces
IsEvenStepGrid(step) ==
  LET n == Div(Sub(arg.max, arg.min), step)
  IN  /\ Len(res) = n[1] + 1
      /\ \A i \in 1..Len(res) :
           Eq(res[i].value, Add(arg.min, Mul(I(i - 1), step)))

\* C23: with min and max pinned and a step for which (max - min) / step is
\* a whole number (at least 1, below the 1000-tick cap), buildTicks returns
\* exactly min, min + step, min + 2 * step, ..., max: spacing step and
\* (max - min) / step + 1 ticks.  Stated with no count and no precision
\* and includeBounds as the scale defaults it.
C23_EvenStepGrid ==
  (op = "buildTicks" /\ Truthy(arg.ticks.step) /\ Lt(arg.min, arg.max)
     /\ arg.ticks.count = Undef /\ arg.ticks.precision = Undef
     /\ arg.ticks.includeBounds
     /\ Div(Sub(arg.max, arg.min), arg.ticks.step)[2] = 1)
    => IsEvenStepGrid(arg.ticks.step)

\* the call has a count, no precision, and is not the even step grid of
\* pinned bounds
CountedTicks ==
  /\ op = "buildTicks"
  /\ arg.ticks.count # Undef
  /\ arg.ticks.precision = Undef
  /\ Lt(arg.min, arg.max)
  /\ Truthy(arg.ticks.step) =>
       Div(Sub(arg.max, arg.min), arg.ticks.step)[2] # 1

\* res is count ticks from min to max, (max - min) / (count - 1) apart
IsCountGrid(count) ==
  /\ I(Len(res)) = count
  /\ Eq(res[1].value, arg.min)
  /\ Eq(res[Len(res)].value, arg.max)
  /\ \A i \in 1..(Len(res) - 1) :
       Eq(Sub(res[i + 1].value, res[i].value),
          Div(Sub(arg.max, arg.min), Sub(count, I(1))))

\* C24: with an explicit count (the even step grid not applying) the
\* generator returns exactly count ticks, the first min, the last max,
\* (max - min) / (count - 1) apart, for every count >= 1 and every extent
\* with min < max.
C24_CountGrid ==
  CountedTicks => IsCountGrid(arg.ticks.count)

--------------------------------------------------------------------------
(* scales/logarithmic.ts *)

log10Floor(v) == MathFloor(log10(v))

isMajor(tickVal) ==
  LET remain == Div(tickVal, Pow10(log10Floor(tickVal)))
  IN  Eq(remain, I(1))

steps(min, max, rangeExp) ==
  LET rangeStep == Pow10(rangeExp)
      start == MathFloor(Div(min, rangeStep))
      end == MathCeil(Div(max, rangeStep))
  IN  Sub(end, start)

RECURSIVE StartExpUp(_, _, _)
StartExpUp(min, max, rangeExp) ==
  IF Gt(steps(min, max, rangeExp), I(10))
  THEN StartExpUp(min, max, Add(rangeExp, I(1)))
  ELSE rangeExp

RECURSIVE StartExpDown(_, _, _)
StartExpDown(min, max, rangeExp) ==
  IF Lt(steps(min, max, rangeExp), I(10))
  THEN StartExpDown(min, max, Sub(rangeExp, I(1)))
  ELSE rangeExp

startExp(min, max) ==
  LET range == Sub(max, min)
      rangeExp == StartExpDown(min, max, StartExpUp(min, max, log10Floor(range)))
  IN  MathMin(rangeExp, log10Floor(min))

\* the tick value of a significand at an exponent
TickValueAt(base, offset, significand, exp, precision) ==
  Div(MathRound(Mul(Add(Add(base, offset), Mul(significand, Pow10(exp))),
                    precision)), precision)

\* The loop state is a record [ticks, value, significand, exp, precision,
\* base, offset]: the local variables of generateTicks the loop reads.

\* a loop body that steps the significand by 1 up to 20
LoopBody_PlainSteps(s) ==
  LET sig1 == Add(s.significand, I(1))
      roll == Ge(sig1, I(20))
      exp1 == IF roll THEN Add(s.exp, I(1)) ELSE s.exp
      sig2 == IF roll THEN I(2) ELSE sig1
      precision1 == IF roll /\ Ge(exp1, I(0)) THEN I(1) ELSE s.precision
  IN  [s EXCEPT !.ticks = Append(@, [value |-> s.value, major |-> isMajor(s.value),
                                     significand |-> s.significand]),
                !.value = TickValueAt(s.base, s.offset, sig2, exp1, precision1),
                !.significand = sig2, !.exp = exp1, !.precision = precision1]

\* one iteration of while (value < max): ticks.push(...), then step
\* significand, exp and precision and compute the next value
LoopBody(s) ==
  LET sig1 == IF Ge(s.significand, I(10))
              THEN (IF Lt(s.significand, I(15)) THEN I(15) ELSE I(20))
              ELSE Add(s.significand, I(1))
      roll == Ge(sig1, I(20))
      exp1 == IF roll THEN Add(s.exp, I(1)) ELSE s.exp
      sig2 == IF roll THEN I(2) ELSE sig1
      precision1 == IF roll /\ Ge(exp1, I(0)) THEN I(1) ELSE s.precision
  IN  [s EXCEPT !.ticks = Append(@, [value |-> s.value, major |-> isMajor(s.value),
                                     significand |-> s.significand]),
                !.value = TickValueAt(s.base, s.offset, sig2, exp1, precision1),
                !.significand = sig2, !.exp = exp1, !.precision = precision1]

\* while (value < max) { ... }
RECURSIVE LogLoop(_, _)
LogLoop(s, max) ==
  IF ~Lt(s.value, max) THEN s ELSE LogLoop(LoopBody(s), max)

\* Double arithmetic in generateTicks.  Math.pow(10, exp) with exp < 0 is
\* not a binary fraction, so a quotient or product that is whole in exact
\* arithmetic can come out one unit in the last place off.  The operand
\* pairs below are the ones among the modelled extents where the double
\* result differs from the exact one:
\*   (0.3 - 0.1) / 0.01 = 19.999999999999996   0.3 / 0.1 = 2.9999999999999996
\*   6 * 0.1 * 10 = 6.000000000000001
QuotientLow == {<<Q(1, 5), Q(1, 100)>>, <<Q(3, 10), Q(1, 10)>>}

ProductHigh == {<<I(6), Q(1, 10)>>}

\* Math.floor(x / y) in doubles
FloorOfQuotient(x, y) ==
  LET quotient == Div(x, y)
  IN  IF <<x, y>> \in QuotientLow /\ quotient[2] = 1
      THEN Sub(quotient, I(1))
      ELSE MathFloor(quotient)

\* a last tick at the value the loop stopped on, whatever max is
pushLastTick_LoopValue(generationOptions, loop) ==
  Append(loop.ticks, [value |-> loop.value, major |-> isMajor(loop.value),
                      significand |-> loop.significand])

\* lines 88-89: the tick at max (or at the value the loop stopped on)
pushLastTick(generationOptions, loop) ==
  LET lastTick == finiteOrDefault(generationOptions.max, loop.value)
  IN  Append(loop.ticks, [value |-> lastTick, major |-> isMajor(lastTick),
                          significand |-> loop.significand])

\* lines 66-70: the first value; the state the loop is entered in
loopTicks(generationOptions, exp, precision, base, offset, significand) ==
  [ticks |-> <<>>,
   value |-> finiteOrDefault(generationOptions.min,
               TickValueAt(base, offset, significand, exp, precision)),
   significand |-> significand, exp |-> exp, precision |-> precision,
   base |-> base, offset |-> offset]

\* line 65: Math.floor((start - offset) / Math.pow(10, exp))
firstSignificand(tens, stepSize, start, offset, exp) ==
  LET quotient == Div(Sub(start, offset), Pow10(exp))
  IN  IF <<tens, stepSize>> \in ProductHigh /\ quotient[2] = 1
      THEN Sub(quotient, I(1))
      ELSE FloorOfQuotient(Sub(start, offset), Pow10(exp))

\* lines 64-65: offset and significand.  tens is
\* Math.floor((min - base) / stepSize / 10)
offsetTicks(generationOptions, exp, precision, stepSize, base, start, tens) ==
  loopTicks(generationOptions, exp, precision, base,
            Mul(Mul(tens, stepSize), I(10)),
            firstSignificand(tens, stepSize, start,
                             Mul(Mul(tens, stepSize), I(10)), exp))

\* lines 63-64: start, and the tens of the offset: floor(floor(q) / 10) is
\* floor(q / 10)
startTicks(generationOptions, min, exp, precision, stepSize, base) ==
  offsetTicks(generationOptions, exp, precision, stepSize, base,
              Div(MathRound(Mul(Sub(min, base), precision)), precision),
              MathFloor(Div(FloorOfQuotient(Sub(min, base), stepSize), I(10))))

\* lines 60-62: precision, stepSize and base
exponentTicks(generationOptions, min, minExp, exp) ==
  startTicks(generationOptions, min, exp,
             IF Lt(exp, I(0)) THEN Pow10(MathAbs(exp)) ELSE I(1),
             Pow10(exp),
             IF Gt(minExp, exp) THEN Pow10(minExp) ELSE I(0))

\* lines 56-70 of generateTicks: the state its loop is entered in
loopEntry(generationOptions, dataRange) ==
  LET min == finiteOrDefault(generationOptions.min, dataRange.min)
      max == dataRange.max
  IN  exponentTicks(generationOptions, min, log10Floor(min), startExp(min, max))

\* generateTicks of logarithmic.ts
generateTicksLog(generationOptions, dataRange) ==
  pushLastTick(generationOptions,
               LogLoop(loopEntry(generationOptions, dataRange), dataRange.max))

\* LogarithmicScale.buildTicks of a scale with extent [min, max]
buildTicksLog(min, max) ==
  generateTicksLog([min |-> min, max |-> max], [min |-> min, max |-> max])

--------------------------------------------------------------------------
(* Calls of the logarithmic tick generator *)

LogValues ==
  {I(-2), I(0), Q(1, 10), Q(3, 10), Q(1, 2), I(1), I(3), I(7), I(9), I(10),
   I(25), I(100), I(250), I(1000)}

LogInputs == [min : LogValues, max : LogValues]

InitLog ==
  /\ op = "new"
  /\ arg \in LogInputs
  /\ res = <<>>
  /\ axes = NoChart
  /\ built = NoChart
  /\ wheels = 0

\* scale.buildTicks() on a LogarithmicScale
BuildTicksLog ==
  /\ op = "new"
  /\ op' = "buildTicks"
  /\ res' = buildTicksLog(arg.min, arg.max)
  /\ UNCHANGED <<arg, axes, built, wheels>>

NextLog == BuildTicksLog

SpecLog == InitLog /\ [][NextLog]_vars

\* C2: every tick sequence LogarithmicScale.buildTicks returns on an extent
\* with min > 0 is strictly increasing over the whole sequence.
C2_LogTicksStrictlyIncreasing ==
  (op = "buildTicks" /\ Gt(arg.min, I(0))) => StrictlyIncreasing(res)

\* a power of ten
IsDecade(x) == IsFin(x) /\ Sgn(x) > 0 /\ Eq(x, Pow10(log10Floor(x)))

\* k * 10^e with k in 1..9
IsDecadeMultiple(x) ==
  LET k == Div(x, Pow10(log10Floor(x)))
  IN  IsFin(x) /\ Sgn(x) > 0 /\ k[2] = 1

\* 1, 2..9, 10, 20..90, 100, 200..900, 1000
DecadeTicks1To1000 ==
  [i \in 1..28 |-> IF i <= 9 THEN I(i)
                   ELSE IF i <= 18 THEN I((i - 9) * 10)
                   ELSE IF i <= 27 THEN I((i - 18) * 100) ELSE I(1000)]

\* C14: LogarithmicScale.buildTicks on [1, 1000] returns exactly the ticks
\* 1, 2..9, 10, 20..90, 100, 200..900, 1000, major exactly on 1, 10, 100
\* and 1000; on every extent from one power of ten to a higher one each
\* tick is k * 10^e with k in 1..9.
C14_DecadeTicks ==
  op = "buildTicks" =>
    /\ (arg.min = I(1) /\ arg.max = I(1000)) =>
         /\ [i \in 1..Len(res) |-> res[i].value] = DecadeTicks1To1000
         /\ \A i \in 1..Len(res) : res[i].major <=> IsDecade(res[i].value)
    /\ (IsDecade(arg.min) /\ IsDecade(arg.max) /\ Lt(arg.min, arg.max)) =>
         \A i \in 1..Len(res) : IsDecadeMultiple(res[i].value)

\* C26: LogarithmicScale.buildTicks returns a non-empty sequence whose last
\* tick is max exactly and whose earlier ticks are all below max; when
\* min < max the first tick is min exactly, and when min >= max the
\* sequence is the single tick max.
C26_LogTicksEndAtMax ==
  op = "buildTicks" =>
    /\ Len(res) > 0
    /\ res[Len(res)].value = arg.max
    /\ \A i \in 1..(Len(res) - 1) : Lt(res[i].value, arg.max)
    /\ Lt(arg.min, arg.max) => res[1].value = arg.min
    /\ Ge(arg.min, arg.max) => (Len(res) = 1 /\ res[1].value = arg.max)

C26_Witness ==
  /\ op = "buildTicks"
  /\ arg.min = I(3)
  /\ arg.max = I(250)
  /\ Len(res) > 2
  /\ res[1].value = I(3)
  /\ res[Len(res)].value = I(250)
  /\ Lt(res[Len(res) - 1].value, I(250))

\* C27: every tick LogarithmicScale.buildTicks returns, the first tick at
\* min and the last tick at max included, has major = true if and only if
\* its value is an exact power of ten, and in that case its significand
\* is 1.  Stated on extents with min > 0.
C27_MajorIffPowerOfTen ==
  (op = "buildTicks" /\ Gt(arg.min, I(0))) =>
    \A i \in 1..Len(res) :
      /\ res[i].major <=> IsDecade(res[i].value)
      /\ res[i].major => res[i].significand = I(1)

--------------------------------------------------------------------------
(* The loop of the logarithmic generateTicks, one iteration per step *)

\* generateTicks({min, max}, scale) has computed its first value
InitLoop ==
  /\ op = "generateTicks"
  /\ arg \in LogInputs
  /\ res = loopEntry([min |-> arg.min, max |-> arg.max],
                     [min |-> arg.min, max |-> arg.max])
  /\ axes = NoChart
  /\ built = NoChart
  /\ wheels = 0

\* one iteration of while (value < max)
LoopIteration ==
  /\ op = "generateTicks"
  /\ Lt(res.value, arg.max)
  /\ res' = LoopBody(res)
  /\ UNCHANGED <<op, arg, axes, built, wheels>>

\* value >= max: the last tick is pushed and the ticks are returned
LoopExit ==
  /\ op = "generateTicks"
  /\ ~Lt(res.value, arg.max)
  /\ op' = "return"
  /\ res' = [res EXCEPT !.ticks = pushLastTick([min |-> arg.min, max |-> arg.max], res)]
  /\ UNCHANGED <<arg, axes, built, wheels>>

NextLoop == LoopIteration \/ LoopExit

SpecLoop == InitLoop /\ [][NextLoop]_vars

\* the step of significand, exp and precision the stepping rule describes
SteppingRule ==
  IF Lt(res.significand, I(10))
  THEN /\ res'.significand = Add(res.significand, I(1))
       /\ res'.exp = res.exp
       /\ res'.precision = res.precision
  ELSE IF res.significand = I(10)
  THEN /\ res'.significand = I(15)
       /\ res'.exp = res.exp
       /\ res'.precision = res.precision
  ELSE /\ res.significand = I(15)
       /\ res'.significand = I(2)
       /\ res'.exp = Add(res.exp, I(1))
       /\ res'.precision = (IF Ge(res'.exp, I(0)) THEN I(1) ELSE res.precision)

\* significands the stepping skips
SkippedSignificands == {I(k) : k \in (11..14) \cup (16..19)}

\* C25: in logarithmic tick generation the significand advances by 1 while
\* it is below 10, then goes 10 -> 15 -> 20, and on reaching 20 the
\* exponent is incremented by one and the significand reset to 2, the
\* precision becoming 1 once the exponent is >= 0; the exponent never
\* decreases and no tick has a significand in 11..14 or 16..19.  The
\* stepping is stated on extents with min > 0, where the significand is a
\* number.
C25_SignificandStepping ==
  [][/\ (op = "generateTicks" /\ op' = "generateTicks" /\ Gt(arg.min, I(0))) =>
          (SteppingRule /\ Ge(res'.exp, res.exp))
     /\ \A i \in 1..Len(res'.ticks) :
          res'.ticks[i].significand \notin SkippedSignificands]_vars

C25_Witness ==
  /\ op = "generateTicks"
  /\ res.significand = I(2)
  /\ Gt(res.exp, startExp(arg.min, arg.max))
  /\ res.precision = I(1)
  /\ Len(res.ticks) > 1
  /\ res.ticks[Len(res.ticks)].significand = I(15)
  /\ res.ticks[Len(res.ticks) - 1].significand = I(10)

--------------------------------------------------------------------------
(* model/axis.ts: class Scale; determineDataLimits of the two scales *)

\* beginAtZero moving every min to 0
ResolvedMinLinear_AlwaysZero(options) ==
  LET min == IF options.userMin = Undef THEN options.dataMin ELSE options.userMin
  IN  IF options.beginAtZero THEN I(0) ELSE min

\* userMin ?? dataMin, then beginAtZero (LinearScale: only a min above 0)
ResolvedMinLinear(options) ==
  LET min == IF options.userMin = Undef THEN options.dataMin ELSE options.userMin
  IN  IF options.beginAtZero /\ Gt(min, I(0)) THEN I(0) ELSE min

\* userMin ?? dataMin, then beginAtZero (LogarithmicScale: always 0.1)
ResolvedMinLog(options) ==
  LET min == IF options.userMin = Undef THEN options.dataMin ELSE options.userMin
  IN  IF options.beginAtZero THEN Q(1, 10) ELSE min

\* userMax when it is given, Math.ceil(dataMax) otherwise
ResolvedMax(options) ==
  IF ~isNullOrUndef(options.userMax) THEN options.userMax
  ELSE MathCeil(options.dataMax)

determineDataLimitsLinear_NoClamp(options) ==
  [min |-> ResolvedMinLinear(options), max |-> ResolvedMax(options)]

determineDataLimitsLinear(options) ==
  LET min == MathMin(ResolvedMinLinear(options), ResolvedMax(options))
      max == MathMax(min, ResolvedMax(options))
  IN  [min |-> min, max |-> max]

determineDataLimitsLog(options) ==
  LET min == MathMin(ResolvedMinLog(options), ResolvedMax(options))
      max == MathMax(min, ResolvedMax(options))
  IN  [min |-> min, max |-> max]

\* this.determineDataLimits(options) on a scale of the given class
determineDataLimits(type, options) ==
  IF type = "logarithmic" THEN determineDataLimitsLog(options)
  ELSE determineDataLimitsLinear(options)

--------------------------------------------------------------------------
(* Calls of determineDataLimits *)

DataValues == {I(-2), Q(-1, 2), I(0), Q(1, 10), Q(3, 2), I(3)}

UserValues == {Undef, I(-1), I(0), Q(1, 2), I(2)}

ScaleTypes == {"linear", "logarithmic"}

LimitInputs ==
  [type : ScaleTypes,
   options : [dataMin : DataValues, dataMax : DataValues,
              userMin : UserValues, userMax : UserValues,
              beginAtZero : BOOLEAN]]

InitLimits ==
  /\ op = "new"
  /\ arg \in LimitInputs
  /\ res = <<>>
  /\ axes = NoChart
  /\ built = NoChart
  /\ wheels = 0

DetermineDataLimits ==
  /\ op = "new"
  /\ op' = "determineDataLimits"
  /\ res' = determineDataLimits(arg.type, arg.options)
  /\ UNCHANGED <<arg, axes, built, wheels>>

NextLimits == DetermineDataLimits

SpecLimits == InitLimits /\ [][NextLimits]_vars

\* the bounds of a call before the final Math.min / Math.max
UnclampedMin ==
  IF arg.type = "logarithmic" THEN ResolvedMinLog(arg.options)
  ELSE ResolvedMinLinear(arg.options)

UnclampedMax == ResolvedMax(arg.options)

\* C8: LogarithmicScale.determineDataLimits with beginAtZero = true never
\* returns a min <= 0, whatever dataMin, dataMax, userMin and userMax are.
C8_LogBeginAtZeroMinAboveZero ==
  (op = "determineDataLimits" /\ arg.type = "logarithmic"
     /\ arg.options.beginAtZero)
    => Gt(res.min, I(0))

\* C9: determineDataLimits of LinearScale and of LogarithmicScale returns
\* min <= max for all finite dataMin, dataMax, userMin, userMax and either
\* beginAtZero; when the min before the final clamp exceeds the max before
\* it, both returned bounds equal that max.
C9_LimitsAreOrdered ==
  op = "determineDataLimits" =>
    /\ Le(res.min, res.max)
    /\ Gt(UnclampedMin, UnclampedMax) =>
         (res.min = UnclampedMax /\ res.max = UnclampedMax)

C9_Witness ==
  /\ op = "determineDataLimits"
  /\ Gt(UnclampedMin, UnclampedMax)
  /\ res.min = UnclampedMax
  /\ res.max = UnclampedMax

\* C18: LinearScale.determineDataLimits computes, before the final clamp,
\* min = userMin if present else dataMin, replaced by 0 when beginAtZero
\* is true and that min > 0, and max = userMax if present else
\* ceil(dataMax); a min <= 0 is never changed by beginAtZero.  The
\* returned pair is the clamp of these two: min(min, max) and
\* max(that, max).
C18_LinearLimitsBeforeClamp ==
  (op = "determineDataLimits" /\ arg.type = "linear") =>
    LET o == arg.options
        min0 == IF o.userMin # Undef THEN o.userMin ELSE o.dataMin
        min == IF o.beginAtZero /\ Gt(min0, I(0)) THEN I(0) ELSE min0
        max == IF o.userMax # Undef THEN o.userMax ELSE MathCeil(o.dataMax)
    IN  /\ res.min = (IF Le(min, max) THEN min ELSE max)
        /\ res.max = max
        /\ (Le(min0, I(0)) /\ Le(min0, max)) => res.min = min0

C18_Witness ==
  /\ op = "determineDataLimits"
  /\ arg.type = "linear"
  /\ arg.options.beginAtZero
  /\ arg.options.userMin = Undef
  /\ arg.options.userMax = Undef
  /\ arg.options.dataMin = Q(3, 2)
  /\ arg.options.dataMax = Q(3, 2)
  /\ res = [min |-> I(0), max |-> I(2)]

\* C19: a pinned bound overrides the data-derived one: whenever userMax is
\* present determineDataLimits returns max = userMax, and whenever userMin
\* is present and userMin <= the resolved max it returns min = userMin, on
\* LinearScale and on LogarithmicScale, for every dataMin, dataMax and
\* either beginAtZero.
C19_PinnedBoundsOverride ==
  op = "determineDataLimits" =>
    LET o == arg.options
    IN  /\ o.userMax # Undef => res.max = o.userMax
        /\ (o.userMin # Undef /\ Le(o.userMin, UnclampedMax)) =>
             res.min = o.userMin

--------------------------------------------------------------------------
(* model/axis.ts: pixel mapping of class Scale; model/layout.ts *)

\* Layout: the box handed to the constructor is the available space
getAvailableSpace(layout) == layout

LayoutWidth(layout) == Sub(layout.x2, layout.x1)

LayoutHeight(layout) == Sub(layout.y2, layout.y1)

\* A scale is a record [type, options, min, max, layout]: the class, the
\* ScaleOptions, the extent and the layout of the axis it belongs to.
isHorizontal(scale) == scale.options.orientation = "horizontal"

getPixelForDecimal(scale, decimal) ==
  LET width == LayoutWidth(scale.layout)
      height == LayoutHeight(scale.layout)
      box == getAvailableSpace(scale.layout)
  IN  IF isHorizontal(scale)
      THEN Add(box.x1, Mul(width, decimal))
      ELSE Sub(box.y2, Mul(height, decimal))

getDecimalForPixel_NotInverted(scale, pixel) ==
  LET width == LayoutWidth(scale.layout)
      height == LayoutHeight(scale.layout)
      box == getAvailableSpace(scale.layout)
  IN  IF isHorizontal(scale)
      THEN Div(Sub(pixel, box.x1), width)
      ELSE Div(Sub(pixel, box.y1), height)

getDecimalForPixel(scale, pixel) ==
  LET width == LayoutWidth(scale.layout)
      height == LayoutHeight(scale.layout)
      box == getAvailableSpace(scale.layout)
  IN  IF isHorizontal(scale)
      THEN Div(Sub(pixel, box.x1), width)
      ELSE Div(Sub(box.y2, pixel), height)

\* LinearScale.getPixelForValue
getPixelForValueLinear(scale, value) ==
  LET range == Sub(scale.max, scale.min)
  IN  IF Eq(range, I(0)) THEN I(0)
      ELSE getPixelForDecimal(scale, Div(Sub(value, scale.min), range))

\* LinearScale.getValueForPixel
getValueForPixelLinear(scale, pixel) ==
  LET range == Sub(scale.max, scale.min)
  IN  IF Eq(range, I(0)) THEN scale.min
      ELSE Add(Mul(getDecimalForPixel(scale, pixel), range), scale.min)

\* a getPixelForValue that takes only undefined for min, not zero
getPixelForValueLog_ZeroKept(scale, value) ==
  LET startValue == log10(scale.min)
      valueRange == Sub(log10(scale.max), log10(scale.min))
      v == IF value = Undef THEN scale.min ELSE value
  IN  IF IsNaN(v) THEN NaN
      ELSE getPixelForDecimal(scale,
             IF Eq(v, scale.min) THEN I(0)
             ELSE Div(Sub(log10(v), startValue), valueRange))

\* LogarithmicScale.getPixelForValue
getPixelForValueLog(scale, value) ==
  LET start == scale.min
      startValue == log10(start)
      valueRange == Sub(log10(scale.max), log10(start))
      v == IF value = Undef \/ Eq(value, I(0)) THEN scale.min ELSE value
  IN  IF IsNaN(v) THEN NaN
      ELSE getPixelForDecimal(scale,
             IF Eq(v, scale.min) THEN I(0)
             ELSE Div(Sub(log10(v), startValue), valueRange))

\* LogarithmicScale.getValueForPixel
getValueForPixelLog(scale, pixel) ==
  LET start == scale.min
      startValue == log10(start)
      valueRange == Sub(log10(scale.max), log10(start))
      decimal == getDecimalForPixel(scale, pixel)
  IN  MathPow10(Add(startValue, Mul(decimal, valueRange)))

\* scale.getPixelForValue(value) on a scale of either class
getPixelForValue(scale, value) ==
  IF scale.type = "logarithmic" THEN getPixelForValueLog(scale, value)
  ELSE getPixelForValueLinear(scale, value)

\* scale.getValueForPixel(pixel) on a scale of either class
getValueForPixel(scale, pixel) ==
  IF scale.type = "logarithmic" THEN getValueForPixelLog(scale, pixel)
  ELSE getValueForPixelLinear(scale, pixel)

getExtent(scale) == <<scale.min, scale.max>>

setExtent(scale, min, max) == [scale EXCEPT !.min = min, !.max = max]

--------------------------------------------------------------------------
(* utils/zoom.ts *)

\* the two bounds of getZoomExtent before the logarithmic clamp
ZoomedBounds(value, min, max, scaleFactor) ==
  LET range == Sub(max, min)
      ratioLeft == Div(Sub(value, min), range)
      ratioRight == Sub(I(1), ratioLeft)
      newRange == Mul(range, scaleFactor)
  IN  <<Sub(value, Mul(newRange, ratioLeft)), Add(value, Mul(newRange, ratioRight))>>

\* a zoom that keeps min in place instead of the pivot
getZoomExtent_AboutMin(value, min, max, scaleFactor, isLogarithmic) ==
  <<min, Add(min, Mul(Sub(max, min), scaleFactor))>>

getZoomExtent_StrictClamp(value, min, max, scaleFactor, isLogarithmic) ==
  LET new == ZoomedBounds(value, min, max, scaleFactor)
      newMin == IF isLogarithmic /\ Lt(new[1], I(0)) THEN Q(1, 10) ELSE new[1]
      newMax == IF isLogarithmic /\ Lt(new[2], I(0)) THEN Q(1, 10) ELSE new[2]
  IN  <<newMin, newMax>>

getZoomExtent(value, min, max, scaleFactor, isLogarithmic) ==
  LET new == ZoomedBounds(value, min, max, scaleFactor)
      newMin == IF isLogarithmic /\ Le(new[1], I(0)) THEN Q(1, 10) ELSE new[1]
      newMax == IF isLogarithmic /\ Le(new[2], I(0)) THEN Q(1, 10) ELSE new[2]
  IN  <<newMin, newMax>>

--------------------------------------------------------------------------
(* Calls on one scale: pixel mapping, getZoomExtent, setExtent *)

Extents ==
  {<<I(0), I(100)>>, <<I(-2), I(3)>>, <<Q(1, 10), I(10)>>, <<I(1), I(1000)>>,
   <<I(3), I(250)>>, <<I(2), I(2)>>, <<Q(1, 1000), Q(1, 20)>>}

PivotValues ==
  {I(-2), I(0), Q(1, 25), Q(1, 10), I(1), I(2), Q(5, 2), I(25), I(100), I(250)}

ScaleFactors == {I(-1), I(0), Q(1, 2), Q(9, 10), I(1), Q(11, 10), I(2)}

\* axis layouts: the bottom and the left axis of a 530 x 300 chart with the
\* default grid, a box that is not at the origin, and an empty box
Layouts ==
  {[x1 |-> I(80), y1 |-> I(250), x2 |-> I(480), y2 |-> I(300)],
   [x1 |-> I(0), y1 |-> I(50), x2 |-> I(80), y2 |-> I(250)],
   [x1 |-> I(10), y1 |-> I(20), x2 |-> I(310), y2 |-> I(140)],
   [x1 |-> I(0), y1 |-> I(0), x2 |-> I(0), y2 |-> I(0)]}

ScaleInputs ==
  [type : ScaleTypes, extent : Extents,
   orientation : {"horizontal", "vertical"}, layout : Layouts,
   value : PivotValues, scaleFactor : ScaleFactors]

\* the scale a call is made on
ScaleOf(a) ==
  [type |-> a.type, options |-> [orientation |-> a.orientation],
   min |-> a.extent[1], max |-> a.extent[2], layout |-> a.layout]

InitScale ==
  /\ op = "new"
  /\ arg \in ScaleInputs
  /\ res = <<>>
  /\ axes = NoChart
  /\ built = NoChart
  /\ wheels = 0

\* scale.getValueForPixel(scale.getPixelForValue(value))
RoundTrip ==
  /\ op = "new"
  /\ op' = "getValueForPixel"
  /\ LET pixel == getPixelForValue(ScaleOf(arg), arg.value)
     IN  res' = [pixel |-> pixel, value |-> getValueForPixel(ScaleOf(arg), pixel)]
  /\ UNCHANGED <<arg, axes, built, wheels>>

\* getZoomExtent(value, min, max, scaleFactor, isLogarithmic)
GetZoomExtent ==
  /\ op = "new"
  /\ op' = "getZoomExtent"
  /\ res' = getZoomExtent(arg.value, arg.extent[1], arg.extent[2],
                          arg.scaleFactor, arg.type = "logarithmic")
  /\ UNCHANGED <<arg, axes, built, wheels>>

\* scale.setExtent(...getZoomExtent(pivot, min, max, scaleFactor, isLog)),
\* with the pixel of the pivot read before and after it
ZoomAbout ==
  /\ op = "new"
  /\ op' = "setExtent"
  /\ LET scale == ScaleOf(arg)
         new == getZoomExtent(arg.value, scale.min, scale.max, arg.scaleFactor,
                              arg.type = "logarithmic")
         zoomed == setExtent(scale, new[1], new[2])
     IN  res' = [before |-> getPixelForValue(scale, arg.value),
                 extent |-> getExtent(zoomed),
                 after |-> getPixelForValue(zoomed, arg.value)]
  /\ UNCHANGED <<arg, axes, built, wheels>>

\* values handed to getPixelForValue: the pivots, the non-finite numbers
\* and undefined
MappedValues == PivotValues \cup {NaN, PosInf, NegInf, Undef}

\* pixels handed to getValueForPixel on an axis that runs from a to b: its
\* two ends, its middle, a point before it and a point after it
PixelsAt(a, b) ==
  {a, Div(Add(a, b), I(2)), b, Sub(a, Sub(b, a)), Add(b, I(10))}

Pixels(scale) ==
  IF isHorizontal(scale) THEN PixelsAt(scale.layout.x1, scale.layout.x2)
  ELSE PixelsAt(scale.layout.y1, scale.layout.y2)

\* scale.getPixelForValue(value)
GetPixelForValue ==
  /\ op = "new"
  /\ op' = "getPixelForValue"
  /\ \E value \in MappedValues :
       res' = [value |-> value, pixel |-> getPixelForValue(ScaleOf(arg), value)]
  /\ UNCHANGED <<arg, axes, built, wheels>>

\* scale.getDecimalForPixel(pixel) and scale.getValueForPixel(pixel)
GetDecimalForPixel ==
  /\ op = "new"
  /\ op' = "getDecimalForPixel"
  /\ \E pixel \in Pixels(ScaleOf(arg)) :
       res' = [pixel |-> pixel,
               decimal |-> getDecimalForPixel(ScaleOf(arg), pixel),
               value |-> getValueForPixel(ScaleOf(arg), pixel)]
  /\ UNCHANGED <<arg, axes, built, wheels>>

NextScale ==
  RoundTrip \/ GetZoomExtent \/ ZoomAbout \/ GetPixelForValue \/ GetDecimalForPixel

SpecScale == InitScale /\ [][NextScale]_vars

\* the axis box has a width and a height
BoxNotEmpty ==
  /\ ~Eq(LayoutWidth(arg.layout), I(0))
  /\ ~Eq(LayoutHeight(arg.layout), I(0))

ValidExtent ==
  /\ Lt(arg.extent[1], arg.extent[2])
  /\ arg.type = "logarithmic" => Gt(arg.extent[1], I(0))

\* C5: on a scale with min < max (min > 0 when logarithmic) and a box that
\* is not empty, getValueForPixel(getPixelForValue(v)) is v for every v
\* strictly between min and max, on both scale classes and in both
\* orientations.  Arithmetic is exact here; on doubles the two sides agree
\* up to rounding.
C5_PixelRoundTrip ==
  (op = "getValueForPixel" /\ ValidExtent /\ BoxNotEmpty
     /\ Lt(arg.extent[1], arg.value) /\ Lt(arg.value, arg.extent[2]))
    => Eq(res.value, arg.value)

C5_Witness ==
  /\ op = "getValueForPixel"
  /\ arg.type = "logarithmic"
  /\ arg.orientation = "vertical"
  /\ ValidExtent /\ BoxNotEmpty
  /\ Lt(arg.extent[1], arg.value) /\ Lt(arg.value, arg.extent[2])
  /\ Lt(res.pixel, arg.layout.y2) /\ Gt(res.pixel, arg.layout.y1)
  /\ Eq(res.value, arg.value)

\* C6: on a LinearScale with min < max, for any pivot and any
\* scaleFactor > 0, the pixel of the pivot after
\* setExtent(getZoomExtent(pivot, min, max, scaleFactor, false)) is the
\* pixel it had before.
C6_LinearZoomKeepsPivotPixel ==
  (op = "setExtent" /\ arg.type = "linear" /\ Lt(arg.extent[1], arg.extent[2])
     /\ Gt(arg.scaleFactor, I(0)))
    => Eq(res.after, res.before)

C6_Witness ==
  /\ op = "setExtent"
  /\ arg.type = "linear"
  /\ Lt(arg.extent[1], arg.value) /\ Lt(arg.value, arg.extent[2])
  /\ arg.scaleFactor = Q(11, 10)
  /\ BoxNotEmpty
  /\ res.extent # arg.extent
  /\ Eq(res.after, res.before)

\* C7: with isLogarithmic = true getZoomExtent returns no bound <= 0: a
\* bound is 0.1 exactly when its value before the clamp is <= 0, and is
\* that value otherwise.
C7_LogZoomFloor ==
  (op = "getZoomExtent" /\ arg.type = "logarithmic") =>
    LET new == ZoomedBounds(arg.value, arg.extent[1], arg.extent[2], arg.scaleFactor)
    IN  \A i \in 1..2 :
          /\ ~Le(res[i], I(0))
          /\ res[i] = IF Le(new[i], I(0)) THEN Q(1, 10) ELSE new[i]

C7_Witness ==
  /\ op = "getZoomExtent"
  /\ arg.type = "logarithmic"
  /\ Eq(ZoomedBounds(arg.value, arg.extent[1], arg.extent[2], arg.scaleFactor)[1], I(0))
  /\ res[1] = Q(1, 10)
  /\ Gt(res[2], Q(1, 10))

\* C17: with isLogarithmic = false and min < max, for every pivot and
\* scaleFactor, getZoomExtent returns
\* newMin = pivot - (max - min) * scaleFactor * ratioLeft and
\* newMax = pivot + (max - min) * scaleFactor * (1 - ratioLeft) with
\* ratioLeft = (pivot - min) / (max - min); hence
\* newMax - newMin = (max - min) * scaleFactor, scaleFactor = 1 returns
\* (min, max), and [0, 100] with pivot 25 and factor 0.5 gives (12.5, 62.5).
\* Arithmetic is exact here; on doubles the equalities hold up to rounding.
C17_LinearZoomExtent ==
  (op = "getZoomExtent" /\ arg.type = "linear" /\ Lt(arg.extent[1], arg.extent[2]))
    => LET min == arg.extent[1]
           max == arg.extent[2]
           ratioLeft == Div(Sub(arg.value, min), Sub(max, min))
       IN  /\ Eq(res[1], Sub(arg.value,
                    Mul(Mul(Sub(max, min), arg.scaleFactor), ratioLeft)))
           /\ Eq(res[2], Add(arg.value,
                    Mul(Mul(Sub(max, min), arg.scaleFactor), Sub(I(1), ratioLeft))))
           /\ Eq(Sub(res[2], res[1]), Mul(Sub(max, min), arg.scaleFactor))
           /\ arg.scaleFactor = I(1) => res = <<min, max>>
           /\ (arg.extent = <<I(0), I(100)>> /\ arg.value = I(25)
                 /\ arg.scaleFactor = Q(1, 2)) => res = <<Q(25, 2), Q(125, 2)>>

C17_Witness ==
  /\ op = "getZoomExtent"
  /\ arg.type = "linear"
  /\ arg.extent = <<I(0), I(100)>>
  /\ arg.value = I(25)
  /\ arg.scaleFactor = Q(1, 2)
  /\ res = <<Q(25, 2), Q(125, 2)>>

\* C22: LogarithmicScale.getPixelForValue takes an undefined or zero value
\* for min: getPixelForValue(0), getPixelForValue(undefined) and
\* getPixelForValue(min) are all the pixel of decimal 0, the left edge of
\* the box when horizontal and its bottom edge when vertical, for every
\* extent with 0 < min < max.
C22_LogZeroAndUndefinedAreMin ==
  (op = "getPixelForValue" /\ arg.type = "logarithmic" /\ ValidExtent
     /\ (res.value = Undef \/ res.value = I(0) \/ res.value = arg.extent[1]))
    => res.pixel = (IF arg.orientation = "horizontal"
                    THEN arg.layout.x1 ELSE arg.layout.y2)

C22_Witness ==
  /\ op = "getPixelForValue"
  /\ arg.type = "logarithmic"
  /\ arg.orientation = "vertical"
  /\ ValidExtent /\ BoxNotEmpty
  /\ res.value = I(0)
  /\ res.pixel = arg.layout.y2
  /\ res.pixel = getPixelForValue(ScaleOf(arg), arg.extent[1])
  /\ res.pixel = getPixelForValue(ScaleOf(arg), Undef)

\* C29: from an extent with min < max (min > 0 when logarithmic), a wheel
\* zoom, getZoomExtent with factor 1.1 or 0.9 about a pivot inside the
\* extent followed by setExtent, leaves an extent with max > min, on a
\* linear and on a logarithmic scale, also when a bound is clamped to 0.1.
C29_ZoomKeepsExtentOrdered ==
  (op = "setExtent" /\ ValidExtent
     /\ arg.scaleFactor \in {Q(11, 10), Q(9, 10)}
     /\ Le(arg.extent[1], arg.value) /\ Le(arg.value, arg.extent[2]))
    => Gt(res.extent[2], res.extent[1])

\* C30: on a logarithmic scale with 0 < min < max, after a wheel zoom about
\* a pivot inside the extent (factor 1.1 or 0.9) that clamps no bound, the
\* pixel of the pivot on the new extent is the pixel it had before.
C30_LogZoomKeepsPivotPixel ==
  (op = "setExtent" /\ arg.type = "logarithmic" /\ ValidExtent /\ BoxNotEmpty
     /\ arg.scaleFactor \in {Q(11, 10), Q(9, 10)}
     /\ Le(arg.extent[1], arg.value) /\ Le(arg.value, arg.extent[2])
     /\ res.extent = ZoomedBounds(arg.value, arg.extent[1], arg.extent[2],
                                  arg.scaleFactor))
    => Eq(res.after, res.before)

\* C11: on a scale with min = max and a box that is not empty,
\* getPixelForValue(v) is finite for every finite v (0 on a LinearScale)
\* and getValueForPixel(p) is min for every finite p, on both scale classes.
C11_ZeroWidthDomainFallback ==
  (Eq(arg.extent[1], arg.extent[2]) /\ BoxNotEmpty
     /\ (arg.type = "logarithmic" => Gt(arg.extent[1], I(0)))) =>
    /\ (op = "getPixelForValue" /\ IsFin(res.value)) =>
         /\ IsFin(res.pixel)
         /\ arg.type = "linear" => Eq(res.pixel, I(0))
    /\ op = "getDecimalForPixel" => Eq(res.value, arg.extent[1])

\* C12: on a scale with min < max whose box is empty, getValueForPixel(p)
\* is the domain min and getDecimalForPixel(p) is finite, for every finite
\* pixel p.
C12_ZeroWidthBoxFallback ==
  (op = "getDecimalForPixel" /\ ValidExtent /\ ~BoxNotEmpty) =>
    /\ IsFin(res.decimal)
    /\ Eq(res.value, arg.extent[1])

\* C13: on a scale with a valid extent getPixelForValue returns NaN for
\* NaN, +Infinity and -Infinity, and never an infinite pixel.
C13_NonFiniteValueGivesNaN ==
  (op = "getPixelForValue" /\ ValidExtent) =>
    /\ (IsNaN(res.value) \/ IsInf(res.value)) => IsNaN(res.pixel)
    /\ ~IsInf(res.pixel)

--------------------------------------------------------------------------
(* model/axis.ts: class Axis *)

\* an options object without fields
NoFields == [f \in {} |-> Undef]

\* zrender.util.merge(target, source, true) on the fields of one object
Merge(target, source) ==
  [f \in DOMAIN target \cup DOMAIN source |->
     IF f \in DOMAIN source THEN source[f] ELSE target[f]]

\* options.f on a number field that can be absent
NumberField(options, f) == IF f \in DOMAIN options THEN options[f] ELSE Undef

\* options.f || default on a number field that can be absent
NumberOrDefault(options, f, default) ==
  IF Truthy(NumberField(options, f)) THEN options[f] ELSE default

NumberOrZero(options, f) == NumberOrDefault(options, f, I(0))

\* options.f || {} on an object field that can be absent
ObjectField(options, f) == IF f \in DOMAIN options THEN options[f] ELSE NoFields

mergeDefaultOptions(options) ==
  Merge([type |-> "value", beginAtZero |-> TRUE], options)

\* Chart._getLayout: the canvas with the grid paddings
getLayout(chart) ==
  LET grid == ObjectField(chart.options, "grid")
  IN  [x1 |-> I(0), y1 |-> I(0), x2 |-> chart.width, y2 |-> chart.height,
       padding |-> [top |-> NumberOrZero(grid, "top"),
                    right |-> NumberOrZero(grid, "right"),
                    bottom |-> NumberOrZero(grid, "bottom"),
                    left |-> NumberOrZero(grid, "left")]]

\* Chart._getPlotArea
getPlotArea(chart) ==
  LET grid == ObjectField(chart.options, "grid")
  IN  [x1 |-> Add(I(0), NumberOrZero(grid, "left")),
       y1 |-> Add(I(0), NumberOrZero(grid, "top")),
       x2 |-> Sub(chart.width, NumberOrZero(grid, "right")),
       y2 |-> Sub(chart.height, NumberOrZero(grid, "bottom"))]

\* a constructor that checks the scale type only
AxisError_TypeOnly(options) ==
  IF mergeDefaultOptions(options).type \notin {"value", "log"}
  THEN "Unsupported scale type" ELSE "none"

\* the Error the Axis constructor throws on these options, "none" when it
\* returns: the type is read from the merged options, the position from the
\* options handed in
AxisError(options) ==
  IF mergeDefaultOptions(options).type \notin {"value", "log"}
  THEN "Unsupported scale type"
  ELSE IF ~("position" \in DOMAIN options
            /\ options.position \in {"bottom", "left"})
  THEN "Unsupported axis position"
  ELSE "none"

\* new Axis(chart, options) when the constructor returns
NewAxis(chart, options) ==
  LET o == mergeDefaultOptions(options)
      position == IF "position" \in DOMAIN o THEN o.position ELSE "undefined"
      scaleOptions ==
        [orientation |-> IF position \in {"bottom", "top"}
                         THEN "horizontal" ELSE "vertical",
         userMin |-> NumberField(o, "min"),
         userMax |-> NumberField(o, "max"),
         dataMin |-> NumberOrDefault(o, "dataMin", I(0)),
         dataMax |-> NumberOrDefault(o, "dataMax", I(1)),
         ticks |-> [step |-> Undef],
         beginAtZero |-> o.beginAtZero]
      type == IF o.type = "value" THEN "linear" ELSE "logarithmic"
      limits == determineDataLimits(type, scaleOptions)
      box == getLayout(chart)
      layout == IF position = "bottom"
                THEN [x1 |-> Add(box.x1, box.padding.left),
                      y1 |-> Sub(box.y2, box.padding.bottom),
                      x2 |-> Sub(box.x2, box.padding.right),
                      y2 |-> box.y2]
                ELSE [x1 |-> box.x1,
                      y1 |-> Add(box.y1, box.padding.top),
                      x2 |-> Add(box.x1, box.padding.left),
                      y2 |-> Sub(box.y2, box.padding.bottom)]
  IN  [options |-> o,
       scale |-> [type |-> type, options |-> scaleOptions,
                  min |-> limits.min, max |-> limits.max, layout |-> layout],
       ticks |-> <<>>]

\* scale.buildTicks() on a scale of either class.  The axis group is empty
\* when Axis.draw builds the ticks (it has just called group.removeAll()),
\* so its bounding rectangle has no size.
buildTicks(scale) ==
  IF scale.type = "logarithmic" THEN buildTicksLog(scale.min, scale.max)
  ELSE buildTicksLinear(scale.min, scale.max, "data",
         [step |-> scale.options.ticks.step, count |-> Undef,
          precision |-> Undef, includeBounds |-> TRUE, maxTicksLimit |-> Undef],
         isHorizontal(scale), maxDigits(I(0), LayoutWidth(scale.layout)))

\* Axis.draw: this._ticks = this.scale.buildTicks()
AxisDraw(axis) == [axis EXCEPT !.ticks = buildTicks(axis.scale)]

reset_KeepsExtent(scale) == scale

\* Scale.reset
reset(scale) ==
  LET limits == determineDataLimits(scale.type, scale.options)
  IN  [scale EXCEPT !.min = limits.min, !.max = limits.max]

--------------------------------------------------------------------------
(* Calls of the Axis constructor *)

\* an options object with the field f or without it
OptionalField(f, values) ==
  {NoFields} \cup {[x \in {f} |-> v] : v \in values}

\* the options handed to new Axis: the scale types and axis positions the
\* interfaces declare, one undeclared type, and absent fields
AxisOptionsSet ==
  {Merge(Merge(t, p), Merge(m, b)) :
     t \in OptionalField("type", {"value", "log", "time"}),
     p \in OptionalField("position", {"bottom", "left", "top", "right"}),
     m \in OptionalField("min", {I(2)}),
     b \in OptionalField("beginAtZero", {FALSE})}

\* the chart an axis is constructed on is one without options or one with
\* a grid
InitAxis ==
  /\ op = "new"
  /\ arg \in [chart : {[width |-> I(530), height |-> I(300), options |-> o] :
                         o \in {NoFields,
                                [grid |-> [left |-> I(80), right |-> I(50),
                                           top |-> I(50), bottom |-> I(50)]]}},
               options : AxisOptionsSet]
  /\ res = <<>>
  /\ axes = NoChart
  /\ built = NoChart
  /\ wheels = 0

\* new Axis(chart, options): res keeps the Error thrown, or the Axis
ConstructAxis ==
  /\ op = "new"
  /\ op' = "newAxis"
  /\ res' = IF AxisError(arg.options) # "none"
            THEN [error |-> AxisError(arg.options), axis |-> NoFields]
            ELSE [error |-> "none", axis |-> NewAxis(arg.chart, arg.options)]
  /\ UNCHANGED <<arg, axes, built, wheels>>

NextAxis == ConstructAxis

SpecAxis == InitAxis /\ [][NextAxis]_vars

\* the scale type of the call: options.type, "value" when it is absent
RequestedType ==
  IF "type" \in DOMAIN arg.options THEN arg.options.type ELSE "value"

\* the axis position of the call, "undefined" when it is absent
RequestedPosition ==
  IF "position" \in DOMAIN arg.options THEN arg.options.position
  ELSE "undefined"

\* C21: new Axis throws, and yields no Axis, whenever the scale type is
\* neither "value" nor "log" or the position is neither "bottom" nor
\* "left" ("top" and "right" included); with a supported type (or none,
\* which defaults to "value") and a supported position it throws nothing
\* and the Axis has its scale and its layout.
C21_UnsupportedAxisThrows ==
  op = "newAxis" =>
    /\ (RequestedType \notin {"value", "log"}
          \/ RequestedPosition \notin {"bottom", "left"})
         => (res.error # "none" /\ res.axis = NoFields)
    /\ (RequestedType \in {"value", "log"}
          /\ RequestedPosition \in {"bottom", "left"})
         => /\ res.error = "none"
            /\ res.axis # NoFields
            /\ res.axis.scale.type =
                 (IF RequestedType = "log" THEN "logarithmic" ELSE "linear")

C21_Witness ==
  /\ op = "newAxis"
  /\ RequestedType = "log"
  /\ RequestedPosition = "top"
  /\ res.error = "Unsupported axis position"
  /\ res.axis = NoFields

--------------------------------------------------------------------------
(* model/chart.ts: class Chart *)

\* A chart is a record [width, height, options]: the size of its canvas
\* and this.options.
defaultOptions ==
  [grid |-> [left |-> I(80), right |-> I(50), top |-> I(50), bottom |-> I(50)],
   zoom |-> [enabled |-> TRUE, mode |-> "xy"]]

\* Chart.setOption: zrender.util.merge(defaultOptions, options, true)
setOption(options) ==
  [f \in DOMAIN defaultOptions \cup DOMAIN options |->
     IF f \in DOMAIN defaultOptions
     THEN Merge(defaultOptions[f], ObjectField(options, f))
     ELSE options[f]]

\* the forEach over the points of one series in _getSeriesBounds
RECURSIVE DataBounds(_, _, _)
DataBounds(data, i, bound) ==
  IF i > Len(data) THEN bound
  ELSE LET d == data[i]
       IN  DataBounds(data, i + 1,
             IF d.x # Undef /\ d.y # Undef
             THEN [xmin |-> MathMin(bound.xmin, d.x), xmax |-> MathMax(bound.xmax, d.x),
                   ymin |-> MathMin(bound.ymin, d.y), ymax |-> MathMax(bound.ymax, d.y)]
             ELSE bound)

\* the forEach over the series in _getSeriesBounds
RECURSIVE SeriesBounds(_, _, _)
SeriesBounds(series, i, bound) ==
  IF i > Len(series) THEN bound
  ELSE SeriesBounds(series, i + 1, DataBounds(series[i].data, 1, bound))

\* Chart._getSeriesBounds
getSeriesBounds(chart) ==
  LET series == IF "series" \in DOMAIN chart.options
                THEN chart.options.series ELSE <<>>
      b == SeriesBounds(series, 1, [xmin |-> PosInf, xmax |-> NegInf,
                                    ymin |-> PosInf, ymax |-> NegInf])
  IN  [xmin |-> IF IsFin(b.xmin) THEN b.xmin ELSE I(0),
       xmax |-> IF IsFin(b.xmax) THEN b.xmax ELSE I(1),
       ymin |-> IF IsFin(b.ymin) THEN b.ymin ELSE I(0),
       ymax |-> IF IsFin(b.ymax) THEN b.ymax ELSE I(1)]

\* Chart._drawAxis: the two axes it constructs and draws
drawAxis(chart) ==
  LET bounds == getSeriesBounds(chart)
      xAxis == NewAxis(chart,
                 Merge(Merge([dataMin |-> bounds.xmin, dataMax |-> bounds.xmax],
                             ObjectField(chart.options, "xAxis")),
                       [position |-> "bottom"]))
      yAxis == NewAxis(chart,
                 Merge(Merge([dataMin |-> bounds.ymin, dataMax |-> bounds.ymax],
                             ObjectField(chart.options, "yAxis")),
                       [position |-> "left"]))
  IN  [bottom |-> AxisDraw(xAxis), left |-> AxisDraw(yAxis)]

\* a wheel zoom that sets the extent and leaves the axis undrawn
ZoomAxis_NoDraw(axis, pos, scale) ==
  LET extent == getExtent(axis.scale)
      value == getValueForPixel(axis.scale, pos)
      new == getZoomExtent(value, extent[1], extent[2], scale,
                           axis.options.type = "log")
  IN  [axis EXCEPT !.scale = setExtent(axis.scale, new[1], new[2])]

\* the part of _onWheel that zooms one axis about the pointer
ZoomAxis(axis, pos, scale) ==
  LET extent == getExtent(axis.scale)
      value == getValueForPixel(axis.scale, pos)
      isLogarithmic == axis.options.type = "log"
      new == getZoomExtent(value, extent[1], extent[2], scale, isLogarithmic)
  IN  AxisDraw([axis EXCEPT !.scale = setExtent(axis.scale, new[1], new[2])])

\* mode?.includes(letter)
ModeIncludes(zoom, letter) ==
  /\ "mode" \in DOMAIN zoom
  /\ zoom.mode \in {letter, "xy"}

\* the guards of _onWheel: zoom enabled and the pointer inside the plot area
WheelZooms(chart, posX, posY) ==
  LET zoom == ObjectField(chart.options, "zoom")
      box == getPlotArea(chart)
  IN  /\ "enabled" \in DOMAIN zoom
      /\ zoom.enabled
      /\ ~(Lt(posX, box.x1) \/ Gt(posX, box.x2) \/ Lt(posY, box.y1) \/ Gt(posY, box.y2))

--------------------------------------------------------------------------
(* The chart: setOption, draw, wheel zoom, setExtent, resetZoom *)

\* extent changes (wheel zooms and setExtent calls) followed per drawing
MaxWheels == 2

\* wheel events are followed from extents whose bounds have a denominator
\* of at most MaxDenominator (the integers of the model are 32 bits wide)
MaxDenominator == 100

Positions == {"bottom", "left"}

ZoomChoices == {NoFields, [mode |-> "y"]}

AxisChoices ==
  {NoFields, [type |-> "log"],
   [type |-> "log", beginAtZero |-> FALSE, max |-> I(50)]}

SeriesChoices ==
  {<<[data |-> <<[x |-> I(1), y |-> I(2)], [x |-> I(100), y |-> I(50)]>>]>>}

\* the objects handed to setOption
ChartOptionsSet ==
  [zoom : ZoomChoices, xAxis : AxisChoices, yAxis : AxisChoices,
   series : SeriesChoices]

\* pointer positions of a wheel event: a point inside the plot area of the
\* default grid and a point outside it
Pointers == {<<I(180), I(150)>>, <<I(10), I(10)>>}

\* extents handed to setExtent directly
DirectExtents == {<<I(5), I(50)>>}

\* new Chart(dom) on a 530 x 300 canvas: this.options = {}, no axis yet
Init ==
  /\ op = "new"
  /\ arg = [width |-> I(530), height |-> I(300), options |-> NoFields]
  /\ res = <<>>
  /\ axes = NoChart
  /\ built = NoChart
  /\ wheels = 0

\* chart.setOption(options), once, before the chart is drawn
SetOption ==
  /\ op = "new"
  /\ \E options \in ChartOptionsSet :
       arg' = [arg EXCEPT !.options = setOption(options)]
  /\ op' = "setOption"
  /\ UNCHANGED <<res, axes, built, wheels>>

\* chart.draw(): _drawAxis constructs both axes and draws them.  built
\* keeps what each scale was constructed with and the extent it got.
Draw ==
  /\ axes' = drawAxis(arg)
  /\ built' = [p \in Positions |->
                 [options |-> axes'[p].scale.options,
                  extent |-> getExtent(axes'[p].scale)]]
  /\ wheels' = 0
  /\ op' = "draw"
  /\ res' = <<>>
  /\ UNCHANGED arg

\* an extent whose bounds are written with few enough digits
ShortExtent(scale) ==
  /\ IsFin(scale.min) => scale.min[2] <= MaxDenominator
  /\ IsFin(scale.max) => scale.max[2] <= MaxDenominator

\* Chart._onWheel(event)
Wheel ==
  /\ wheels < MaxWheels
  /\ axes # NoChart => \A p \in Positions : ShortExtent(axes[p].scale)
  /\ \E pointer \in Pointers, delta \in {I(120), I(-120)} :
       LET zoom == ObjectField(arg.options, "zoom")
           scale == IF Gt(delta, I(0)) THEN Q(11, 10) ELSE Q(9, 10)
           zooms == WheelZooms(arg, pointer[1], pointer[2]) /\ axes # NoChart
       IN  /\ axes' = IF ~zooms THEN axes
                      ELSE [bottom |-> IF ModeIncludes(zoom, "x")
                                       THEN ZoomAxis(axes.bottom, pointer[1], scale)
                                       ELSE axes.bottom,
                            left |-> IF ModeIncludes(zoom, "y")
                                     THEN ZoomAxis(axes.left, pointer[2], scale)
                                     ELSE axes.left]
           /\ wheels' = IF zooms THEN wheels + 1 ELSE wheels
           /\ res' = [offsetX |-> pointer[1], offsetY |-> pointer[2],
                      wheelDelta |-> delta]
  /\ op' = "wheel"
  /\ UNCHANGED <<arg, built>>

\* axis.getScale().setExtent(min, max) called on one axis of the chart
SetExtent ==
  /\ wheels < MaxWheels
  /\ axes # NoChart
  /\ \E p \in Positions, extent \in DirectExtents :
       /\ axes' = [axes EXCEPT ![p].scale = setExtent(@, extent[1], extent[2])]
       /\ res' = <<p, extent>>
  /\ wheels' = wheels + 1
  /\ op' = "setExtent"
  /\ UNCHANGED <<arg, built>>

\* Chart.resetZoom()
ResetZoom ==
  /\ axes' = IF axes = NoChart THEN axes
             ELSE [bottom |-> AxisDraw([axes.bottom EXCEPT !.scale = reset(@)]),
                   left |-> AxisDraw([axes.left EXCEPT !.scale = reset(@)])]
  /\ op' = "resetZoom"
  /\ res' = <<>>
  /\ UNCHANGED <<arg, built, wheels>>

Next == SetOption \/ Draw \/ Wheel \/ SetExtent \/ ResetZoom

Spec == Init /\ [][Next]_vars

\* C10: after any sequence of setExtent calls, made directly or by the
\* wheel handler, Chart.resetZoom leaves the bottom and the left scale with
\* the extent determineDataLimits(options) gives, which is the extent the
\* scale had when it was constructed; and no setExtent changes the options
\* a scale was constructed with.
C10_ResetRestoresConstructionExtent ==
  axes # NoChart =>
    \A p \in Positions :
      /\ axes[p].scale.options = built[p].options
      /\ op = "resetZoom" =>
           LET limits == determineDataLimits(axes[p].scale.type, axes[p].scale.options)
           IN  /\ getExtent(axes[p].scale) = <<limits.min, limits.max>>
               /\ getExtent(axes[p].scale) = built[p].extent

C10_Witness ==
  /\ op = "resetZoom"
  /\ axes # NoChart
  /\ wheels = MaxWheels
  /\ \A p \in Positions :
       /\ getExtent(axes[p].scale) = built[p].extent
       /\ Lt(axes[p].scale.min, axes[p].scale.max)

\* the chart driven by its own handlers only: no setExtent call from outside
NextHandlers == SetOption \/ Draw \/ Wheel \/ ResetZoom

SpecHandlers == Init /\ [][NextHandlers]_vars

\* the handler that ran last has redrawn the series
SeriesRedrawn ==
  \/ op \in {"draw", "resetZoom"}
  \/ /\ op = "wheel"
     /\ WheelZooms(arg, res.offsetX, res.offsetY)

\* C28: in every run of the wheel handler and of resetZoom each setExtent
\* or reset on a scale is followed by buildTicks (Axis.draw) on that axis
\* before the series are redrawn; so whenever the series have been redrawn
\* the tick list each axis stores is buildTicks() of its current extent.
C28_TicksBuiltAfterExtentChange ==
  (axes # NoChart /\ SeriesRedrawn) =>
    \A p \in Positions : axes[p].ticks = buildTicks(axes[p].scale)

C28_Witness ==
  /\ op = "wheel"
  /\ axes # NoChart
  /\ wheels = MaxWheels
  /\ WheelZooms(arg, res.offsetX, res.offsetY)
  /\ \A p \in Positions :
       /\ getExtent(axes[p].scale) # built[p].extent
       /\ axes[p].ticks = buildTicks(axes[p].scale)
       /\ axes[p].ticks # buildTicks(setExtent(axes[p].scale, built[p].extent[1],
                                               built[p].extent[2]))

====
